---- MODULE Spec2Model ----
(***************************************************************************)
(* Commercial paper lifecycle contract (funder organization).              *)
(*                                                                         *)
(* The ledger is a keyed store of commercial papers; every transaction     *)
(* function of CommercialPaperContract is one action that reads the paper  *)
(* at a key, validates, mutates the in-memory paper and writes it back.    *)
(***************************************************************************)
EXTENDS Integers, Sequences, FiniteSets, TLC

VARIABLES ledger, last, pending

vars == <<ledger, last, pending>>

(***************************************************************************)
(* Bounds and input sets                                                   *)
(***************************************************************************)
MaxPaperNumber == 2

Issuers == {"MagnetoCorp"}
PaperNumbers == 1..MaxPaperNumber
Owners == {"MagnetoCorp", "DigiBank"}
IssueDateTimes == {"2020-05-31"}
MaturityDateTimes == {"2020-11-30"}
FaceValues == {5000000}

(***************************************************************************)
(* paper.js                                                                *)
(***************************************************************************)
cpState == [PURCHASE |-> 1, INVOICE |-> 2, ISSUE |-> 3, CONFIRM |-> 4,
            DEPOSIT |-> 5, APPROVE |-> 6, PAY |-> 7]

\* the value of a property that was never assigned
Undefined == "undefined"

\* assignment this.f = v: adds the property when the object lacks it
SetField(obj, f, v) == (f :> v) @@ obj

GetField(obj, f) == IF f \in DOMAIN obj THEN obj[f] ELSE Undefined

getClass == "org.papernet.commercialpaper"

\* State.makeKey of the ledger-api: the key parts joined by a separator
makeKey(keyParts) == keyParts[1] \o ":" \o ToString(keyParts[2])

\* constructor of the State base class: records the class and the key
State(stateClass, keyParts) == [class |-> stateClass, key |-> makeKey(keyParts)]

\* a constructor handing the base class the face value in place of the
\* paper number
CommercialPaper_keyedByFaceValue(obj) ==
    LET this == State(getClass, <<GetField(obj, "issuer"), GetField(obj, "faceValue")>>)
    IN  [f \in DOMAIN this \cup DOMAIN obj |-> IF f \in DOMAIN obj THEN obj[f] ELSE this[f]]

\* new CommercialPaper(obj)
CommercialPaper(obj) ==
    LET this == State(getClass, <<GetField(obj, "issuer"), GetField(obj, "paperNumber")>>)
    IN  [f \in DOMAIN this \cup DOMAIN obj |-> IF f \in DOMAIN obj THEN obj[f] ELSE this[f]]

createInstance(issuer, paperNumber, issueDateTime, maturityDateTime, faceValue) ==
    CommercialPaper([issuer |-> issuer, paperNumber |-> paperNumber,
                     issueDateTime |-> issueDateTime,
                     maturityDateTime |-> maturityDateTime,
                     faceValue |-> faceValue])

getIssuer(paper) == GetField(paper, "issuer")
setIssuer(paper, newIssuer) == SetField(paper, "issuer", newIssuer)
getOwner(paper) == GetField(paper, "owner")
setOwner(paper, newOwner) == SetField(paper, "owner", newOwner)

setPurchase(paper) == SetField(paper, "currentState", cpState.PURCHASE)
setInvoice(paper) == SetField(paper, "currentState", cpState.INVOICE)
setIssue(paper) == SetField(paper, "currentState", cpState.ISSUE)
setConfirm(paper) == SetField(paper, "currentState", cpState.CONFIRM)
setDeposit(paper) == SetField(paper, "currentState", cpState.DEPOSIT)
setApprove(paper) == SetField(paper, "currentState", cpState.APPROVE)
setPay(paper) == SetField(paper, "currentState", cpState.PAY)

\* this.currentState === cpState.X; a property never assigned is undefined
isPurchase(paper) == "currentState" \in DOMAIN paper /\ paper.currentState = cpState.PURCHASE
isInvoice(paper) == "currentState" \in DOMAIN paper /\ paper.currentState = cpState.INVOICE
isIssue(paper) == "currentState" \in DOMAIN paper /\ paper.currentState = cpState.ISSUE
isConfirm(paper) == "currentState" \in DOMAIN paper /\ paper.currentState = cpState.CONFIRM
isDeposit(paper) == "currentState" \in DOMAIN paper /\ paper.currentState = cpState.DEPOSIT
isApprove(paper) == "currentState" \in DOMAIN paper /\ paper.currentState = cpState.APPROVE
isPay(paper) == "currentState" \in DOMAIN paper /\ paper.currentState = cpState.PAY

\* the methods a CommercialPaper instance answers to: those of the class
\* body and those inherited from the State base class
CommercialPaperMethods ==
    {"getIssuer", "setIssuer", "getOwner", "setOwner",
     "setPurchase", "setInvoice", "setIssue", "setConfirm", "setDeposit",
     "setApprove", "setPay",
     "isPurchase", "isInvoice", "isIssue", "isConfirm", "isDeposit",
     "isApprove", "isPay", "toBuffer"}

StateMethods == {"getClass", "getKey", "getSplitKey", "getCurrentState", "serialize"}

\* paper.m() for a method without arguments: calling a name that is not a
\* function of the object throws a TypeError
CallMethod(paper, m) ==
    IF m \notin CommercialPaperMethods \cup StateMethods
    THEN [threw |-> TRUE, paper |-> paper, value |-> FALSE]
    ELSE CASE m = "setPurchase" -> [threw |-> FALSE, paper |-> setPurchase(paper), value |-> FALSE]
           [] m = "setInvoice" -> [threw |-> FALSE, paper |-> setInvoice(paper), value |-> FALSE]
           [] m = "setIssue" -> [threw |-> FALSE, paper |-> setIssue(paper), value |-> FALSE]
           [] m = "setConfirm" -> [threw |-> FALSE, paper |-> setConfirm(paper), value |-> FALSE]
           [] m = "setDeposit" -> [threw |-> FALSE, paper |-> setDeposit(paper), value |-> FALSE]
           [] m = "setApprove" -> [threw |-> FALSE, paper |-> setApprove(paper), value |-> FALSE]
           [] m = "setPay" -> [threw |-> FALSE, paper |-> setPay(paper), value |-> FALSE]
           [] m = "isPurchase" -> [threw |-> FALSE, paper |-> paper, value |-> isPurchase(paper)]
           [] m = "isInvoice" -> [threw |-> FALSE, paper |-> paper, value |-> isInvoice(paper)]
           [] m = "isIssue" -> [threw |-> FALSE, paper |-> paper, value |-> isIssue(paper)]
           [] m = "isConfirm" -> [threw |-> FALSE, paper |-> paper, value |-> isConfirm(paper)]
           [] m = "isDeposit" -> [threw |-> FALSE, paper |-> paper, value |-> isDeposit(paper)]
           [] m = "isApprove" -> [threw |-> FALSE, paper |-> paper, value |-> isApprove(paper)]
           [] m = "isPay" -> [threw |-> FALSE, paper |-> paper, value |-> isPay(paper)]
           [] OTHER -> [threw |-> FALSE, paper |-> paper, value |-> FALSE]

\* JSON.stringify(this): the own properties in the order they were created
PropertyOrder ==
    <<"class", "key", "issuer", "paperNumber", "issueDateTime",
      "maturityDateTime", "faceValue", "currentState", "owner">>

toBuffer(paper) ==
    LET present == SelectSeq(PropertyOrder, LAMBDA f : f \in DOMAIN paper)
    IN  [i \in 1..Len(present) |-> <<present[i], paper[present[i]]>>]

(***************************************************************************)
(* Errors                                                                  *)
(***************************************************************************)
NoError == "none"
NotFound == "NotFound"
AlreadyExists == "AlreadyExists"
OwnerMismatch == "OwnerMismatch"
InvalidStateTransition == "InvalidStateTransition"
TypeError == "TypeError"

NoReturn == << >>

\* JSON.parse of a serialized object: a plain object with the properties
\* the text lists
JSONparse(buffer) ==
    [f \in {buffer[i][1] : i \in 1..Len(buffer)} |->
        buffer[CHOOSE i \in 1..Len(buffer) : buffer[i][1] = f][2]]

\* Buffer.from(value) for an object: accepted when the object is array-like
\* (it has a length) or is the JSON form of a Buffer, a TypeError otherwise
BufferFrom(value) ==
    IF "length" \in DOMAIN value
    THEN [threw |-> FALSE, data |-> << >>]
    ELSE IF GetField(value, "type") = "Buffer" /\ "data" \in DOMAIN value
    THEN [threw |-> FALSE, data |-> value.data]
    ELSE [threw |-> TRUE, data |-> << >>]

\* State.deserializeClass of the ledger-api: parse the bytes and construct
\* the class from the parsed object
deserializeClass(data) == CommercialPaper(JSONparse(data))

deserialize(data) == deserializeClass(data)

fromBuffer(buffer) ==
    LET bytes == BufferFrom(JSONparse(buffer))
    IN  IF bytes.threw THEN [err |-> TypeError, paper |-> << >>]
        ELSE [err |-> NoError, paper |-> <<deserialize(bytes.data)>>]

(***************************************************************************)
(* paperlist.js: the ledger collection, keyed by the paper's key           *)
(***************************************************************************)
EmptyLedger == [k \in {} |-> [key |-> k]]

getPaper(l, paperKey) ==
    IF paperKey \in DOMAIN l
    THEN [err |-> NoError, paper |-> l[paperKey]]
    ELSE [err |-> NotFound, paper |-> [key |-> paperKey]]

addPaper(l, paper) ==
    IF paper.key \in DOMAIN l
    THEN [err |-> AlreadyExists, ledger |-> l]
    ELSE [err |-> NoError, ledger |-> (paper.key :> paper) @@ l]

updatePaper(l, paper) ==
    IF paper.key \in DOMAIN l
    THEN [err |-> NoError, ledger |-> (paper.key :> paper) @@ l]
    ELSE [err |-> NotFound, ledger |-> l]

(***************************************************************************)
(* papercontract.js: the transaction functions.  Each takes the ledger it  *)
(* runs against and yields the ledger it leaves, the error it threw (or    *)
(* none) and the buffer it returned.                                       *)
(***************************************************************************)
Throw(l, e) == [ledger |-> l, err |-> e, ret |-> NoReturn]
Return(l, buffer) == [ledger |-> l, err |-> NoError, ret |-> buffer]

\* purchase leaving the paper with its issuer instead of the new owner
purchase_ownedByIssuer(l, issuer, paperNumber, newOwner, issueDateTime, maturityDateTime, faceValue) ==
    LET paper0 == createInstance(issuer, paperNumber, issueDateTime, maturityDateTime, faceValue)
        paper1 == setPurchase(paper0)
        paper == setOwner(paper1, issuer)
        added == addPaper(l, paper)
    IN  IF added.err # NoError THEN Throw(l, added.err)
        ELSE Return(added.ledger, toBuffer(paper))

\* purchase that does not wait for addPaper, so its rejection is lost
purchase_noAwait(l, issuer, paperNumber, newOwner, issueDateTime, maturityDateTime, faceValue) ==
    LET paper0 == createInstance(issuer, paperNumber, issueDateTime, maturityDateTime, faceValue)
        paper1 == setPurchase(paper0)
        paper == setOwner(paper1, newOwner)
        added == addPaper(l, paper)
    IN  Return(added.ledger, toBuffer(paper))

purchase(l, issuer, paperNumber, newOwner, issueDateTime, maturityDateTime, faceValue) ==
    LET paper0 == createInstance(issuer, paperNumber, issueDateTime, maturityDateTime, faceValue)
        paper1 == setPurchase(paper0)
        paper == setOwner(paper1, newOwner)
        added == addPaper(l, paper)
    IN  IF added.err # NoError THEN Throw(l, added.err)
        ELSE Return(added.ledger, toBuffer(paper))

\* invoice returning the paper as it was read instead of as it was stored
invoice_returnsLoaded(l, issuer, paperNumber, currentOwner, newOwner, amount, dateTime) ==
    LET paperKey == makeKey(<<issuer, paperNumber>>)
        got == getPaper(l, paperKey)
    IN  IF got.err # NoError THEN Throw(l, got.err)
        ELSE IF getOwner(got.paper) # currentOwner THEN Throw(l, OwnerMismatch)
        ELSE LET paper1 == IF isPurchase(got.paper) THEN setInvoice(got.paper) ELSE got.paper
             IN  IF isInvoice(paper1)
                 THEN LET paper == setOwner(paper1, newOwner)
                          updated == updatePaper(l, paper)
                      IN  IF updated.err # NoError THEN Throw(l, updated.err)
                          ELSE Return(updated.ledger, toBuffer(got.paper))
                 ELSE IF CallMethod(paper1, "getCurrentState").threw THEN Throw(l, TypeError)
                 ELSE Throw(l, InvalidStateTransition)

\* invoice moving the paper to INVOICE whatever state it is in
invoice_alwaysSet(l, issuer, paperNumber, currentOwner, newOwner, amount, dateTime) ==
    LET paperKey == makeKey(<<issuer, paperNumber>>)
        got == getPaper(l, paperKey)
    IN  IF got.err # NoError THEN Throw(l, got.err)
        ELSE IF getOwner(got.paper) # currentOwner THEN Throw(l, OwnerMismatch)
        ELSE LET paper1 == setInvoice(got.paper)
             IN  IF isInvoice(paper1)
                 THEN LET paper == setOwner(paper1, newOwner)
                          updated == updatePaper(l, paper)
                      IN  IF updated.err # NoError THEN Throw(l, updated.err)
                          ELSE Return(updated.ledger, toBuffer(paper))
                 ELSE IF CallMethod(paper1, "getCurrentState").threw THEN Throw(l, TypeError)
                 ELSE Throw(l, InvalidStateTransition)

\* invoice validating the owner only after the state
invoice_ownerCheckedLast(l, issuer, paperNumber, currentOwner, newOwner, amount, dateTime) ==
    LET paperKey == makeKey(<<issuer, paperNumber>>)
        got == getPaper(l, paperKey)
    IN  IF got.err # NoError THEN Throw(l, got.err)
        ELSE LET paper1 == IF isPurchase(got.paper) THEN setInvoice(got.paper) ELSE got.paper
             IN  IF isInvoice(paper1)
                 THEN IF getOwner(got.paper) # currentOwner THEN Throw(l, OwnerMismatch)
                      ELSE LET paper == setOwner(paper1, newOwner)
                               updated == updatePaper(l, paper)
                           IN  IF updated.err # NoError THEN Throw(l, updated.err)
                               ELSE Return(updated.ledger, toBuffer(paper))
                 ELSE IF CallMethod(paper1, "getCurrentState").threw THEN Throw(l, TypeError)
                 ELSE Throw(l, InvalidStateTransition)

\* invoice reading the paper of a fixed paper number
invoice_fixedKey(l, issuer, paperNumber, currentOwner, newOwner, amount, dateTime) ==
    LET paperKey == makeKey(<<issuer, 1>>)
        got == getPaper(l, paperKey)
    IN  IF got.err # NoError THEN Throw(l, got.err)
        ELSE IF getOwner(got.paper) # currentOwner THEN Throw(l, OwnerMismatch)
        ELSE LET paper1 == IF isPurchase(got.paper) THEN setInvoice(got.paper) ELSE got.paper
             IN  IF isInvoice(paper1)
                 THEN LET paper == setOwner(paper1, newOwner)
                          updated == updatePaper(l, paper)
                      IN  IF updated.err # NoError THEN Throw(l, updated.err)
                          ELSE Return(updated.ledger, toBuffer(paper))
                 ELSE IF CallMethod(paper1, "getCurrentState").threw THEN Throw(l, TypeError)
                 ELSE Throw(l, InvalidStateTransition)

invoice(l, issuer, paperNumber, currentOwner, newOwner, amount, dateTime) ==
    LET paperKey == makeKey(<<issuer, paperNumber>>)
        got == getPaper(l, paperKey)
    IN  IF got.err # NoError THEN Throw(l, got.err)
        ELSE IF getOwner(got.paper) # currentOwner THEN Throw(l, OwnerMismatch)
        ELSE LET paper1 == IF isPurchase(got.paper) THEN setInvoice(got.paper) ELSE got.paper
             IN  IF isInvoice(paper1)
                 THEN LET paper == setOwner(paper1, newOwner)
                          updated == updatePaper(l, paper)
                      IN  IF updated.err # NoError THEN Throw(l, updated.err)
                          ELSE Return(updated.ledger, toBuffer(paper))
                 ELSE IF CallMethod(paper1, "getCurrentState").threw THEN Throw(l, TypeError)
                 ELSE Throw(l, InvalidStateTransition)

\* issue recording its issueDateTime argument on the paper
issue_storesDateTime(l, issuer, paperNumber, currentOwner, newOwner, amount, dateTime) ==
    LET paperKey == makeKey(<<issuer, paperNumber>>)
        got == getPaper(l, paperKey)
    IN  IF got.err # NoError THEN Throw(l, got.err)
        ELSE IF getOwner(got.paper) # currentOwner THEN Throw(l, OwnerMismatch)
        ELSE LET paper1 == IF isInvoice(got.paper) THEN setIssue(got.paper) ELSE got.paper
             IN  IF isIssue(paper1)
                 THEN LET paper == SetField(setOwner(paper1, newOwner), "issueDateTime", dateTime)
                          updated == updatePaper(l, paper)
                      IN  IF updated.err # NoError THEN Throw(l, updated.err)
                          ELSE Return(updated.ledger, toBuffer(paper))
                 ELSE IF CallMethod(paper1, "getCurrentState").threw THEN Throw(l, TypeError)
                 ELSE Throw(l, InvalidStateTransition)

\* issue advancing the state without handing the paper to the new owner
issue_ownerNotSet(l, issuer, paperNumber, currentOwner, newOwner, amount, dateTime) ==
    LET paperKey == makeKey(<<issuer, paperNumber>>)
        got == getPaper(l, paperKey)
    IN  IF got.err # NoError THEN Throw(l, got.err)
        ELSE IF getOwner(got.paper) # currentOwner THEN Throw(l, OwnerMismatch)
        ELSE LET paper1 == IF isInvoice(got.paper) THEN setIssue(got.paper) ELSE got.paper
             IN  IF isIssue(paper1)
                 THEN LET updated == updatePaper(l, paper1)
                      IN  IF updated.err # NoError THEN Throw(l, updated.err)
                          ELSE Return(updated.ledger, toBuffer(paper1))
                 ELSE IF CallMethod(paper1, "getCurrentState").threw THEN Throw(l, TypeError)
                 ELSE Throw(l, InvalidStateTransition)

\* issue testing for the predecessor of invoice instead of its own
issue_wrongPredecessor(l, issuer, paperNumber, currentOwner, newOwner, amount, dateTime) ==
    LET paperKey == makeKey(<<issuer, paperNumber>>)
        got == getPaper(l, paperKey)
    IN  IF got.err # NoError THEN Throw(l, got.err)
        ELSE IF getOwner(got.paper) # currentOwner THEN Throw(l, OwnerMismatch)
        ELSE LET paper1 == IF isPurchase(got.paper) THEN setIssue(got.paper) ELSE got.paper
             IN  IF isIssue(paper1)
                 THEN LET paper == setOwner(paper1, newOwner)
                          updated == updatePaper(l, paper)
                      IN  IF updated.err # NoError THEN Throw(l, updated.err)
                          ELSE Return(updated.ledger, toBuffer(paper))
                 ELSE IF CallMethod(paper1, "getCurrentState").threw THEN Throw(l, TypeError)
                 ELSE Throw(l, InvalidStateTransition)

issue(l, issuer, paperNumber, currentOwner, newOwner, amount, dateTime) ==
    LET paperKey == makeKey(<<issuer, paperNumber>>)
        got == getPaper(l, paperKey)
    IN  IF got.err # NoError THEN Throw(l, got.err)
        ELSE IF getOwner(got.paper) # currentOwner THEN Throw(l, OwnerMismatch)
        ELSE LET paper1 == IF isInvoice(got.paper) THEN setIssue(got.paper) ELSE got.paper
             IN  IF isIssue(paper1)
                 THEN LET paper == setOwner(paper1, newOwner)
                          updated == updatePaper(l, paper)
                      IN  IF updated.err # NoError THEN Throw(l, updated.err)
                          ELSE Return(updated.ledger, toBuffer(paper))
                 ELSE IF CallMethod(paper1, "getCurrentState").threw THEN Throw(l, TypeError)
                 ELSE Throw(l, InvalidStateTransition)

\* confirm storing the new owner before it has looked at the state
confirm_writesFirst(l, issuer, paperNumber, currentOwner, newOwner, amount, dateTime) ==
    LET paperKey == makeKey(<<issuer, paperNumber>>)
        got == getPaper(l, paperKey)
    IN  IF got.err # NoError THEN Throw(l, got.err)
        ELSE IF getOwner(got.paper) # currentOwner THEN Throw(l, OwnerMismatch)
        ELSE LET paper0 == setOwner(got.paper, newOwner)
                 written == updatePaper(l, paper0)
                 paper1 == IF isIssue(paper0) THEN setConfirm(paper0) ELSE paper0
             IN  IF written.err # NoError THEN Throw(l, written.err)
                 ELSE IF isConfirm(paper1)
                 THEN LET updated == updatePaper(written.ledger, paper1)
                      IN  IF updated.err # NoError THEN Throw(written.ledger, updated.err)
                          ELSE Return(updated.ledger, toBuffer(paper1))
                 ELSE IF CallMethod(paper1, "getCurrentState").threw
                      THEN Throw(written.ledger, TypeError)
                 ELSE Throw(written.ledger, InvalidStateTransition)

\* confirm no longer transferring at its target state
confirm_noTransfer(l, issuer, paperNumber, currentOwner, newOwner, amount, dateTime) ==
    LET paperKey == makeKey(<<issuer, paperNumber>>)
        got == getPaper(l, paperKey)
    IN  IF got.err # NoError THEN Throw(l, got.err)
        ELSE IF getOwner(got.paper) # currentOwner THEN Throw(l, OwnerMismatch)
        ELSE IF isIssue(got.paper)
             THEN LET paper == setOwner(setConfirm(got.paper), newOwner)
                      updated == updatePaper(l, paper)
                  IN  IF updated.err # NoError THEN Throw(l, updated.err)
                      ELSE Return(updated.ledger, toBuffer(paper))
             ELSE IF CallMethod(got.paper, "getCurrentState").threw THEN Throw(l, TypeError)
             ELSE Throw(l, InvalidStateTransition)

confirm(l, issuer, paperNumber, currentOwner, newOwner, amount, dateTime) ==
    LET paperKey == makeKey(<<issuer, paperNumber>>)
        got == getPaper(l, paperKey)
    IN  IF got.err # NoError THEN Throw(l, got.err)
        ELSE IF getOwner(got.paper) # currentOwner THEN Throw(l, OwnerMismatch)
        ELSE LET paper1 == IF isIssue(got.paper) THEN setConfirm(got.paper) ELSE got.paper
             IN  IF isConfirm(paper1)
                 THEN LET paper == setOwner(paper1, newOwner)
                          updated == updatePaper(l, paper)
                      IN  IF updated.err # NoError THEN Throw(l, updated.err)
                          ELSE Return(updated.ledger, toBuffer(paper))
                 ELSE IF CallMethod(paper1, "getCurrentState").threw THEN Throw(l, TypeError)
                 ELSE Throw(l, InvalidStateTransition)

\* setEarlyPay, isEarlyPay, setAcknowledge and isAcknowledge are called on the
\* paper although the CommercialPaper class defines none of them
earlyPay(l, issuer, paperNumber, currentOwner, newOwner, amount, dateTime) ==
    LET paperKey == makeKey(<<issuer, paperNumber>>)
        got == getPaper(l, paperKey)
    IN  IF got.err # NoError THEN Throw(l, got.err)
        ELSE IF getOwner(got.paper) # currentOwner THEN Throw(l, OwnerMismatch)
        ELSE LET atPredecessor == CallMethod(got.paper, "isConfirm")
             IN  IF atPredecessor.threw THEN Throw(l, TypeError)
                 ELSE LET advanced == IF atPredecessor.value
                                      THEN CallMethod(got.paper, "setEarlyPay")
                                      ELSE [threw |-> FALSE, paper |-> got.paper, value |-> FALSE]
                      IN  IF advanced.threw THEN Throw(l, TypeError)
                          ELSE LET atTarget == CallMethod(advanced.paper, "isEarlyPay")
                               IN  IF atTarget.threw THEN Throw(l, TypeError)
                                   ELSE IF atTarget.value
                                   THEN LET paper == setOwner(advanced.paper, newOwner)
                                            updated == updatePaper(l, paper)
                                        IN  IF updated.err # NoError THEN Throw(l, updated.err)
                                            ELSE Return(updated.ledger, toBuffer(paper))
                                   ELSE IF CallMethod(advanced.paper, "getCurrentState").threw
                                        THEN Throw(l, TypeError)
                                   ELSE Throw(l, InvalidStateTransition)

acknowledge(l, issuer, paperNumber, currentOwner, newOwner, amount, dateTime) ==
    LET paperKey == makeKey(<<issuer, paperNumber>>)
        got == getPaper(l, paperKey)
    IN  IF got.err # NoError THEN Throw(l, got.err)
        ELSE IF getOwner(got.paper) # currentOwner THEN Throw(l, OwnerMismatch)
        ELSE LET atPredecessor == CallMethod(got.paper, "isEarlyPay")
             IN  IF atPredecessor.threw THEN Throw(l, TypeError)
                 ELSE LET advanced == IF atPredecessor.value
                                      THEN CallMethod(got.paper, "setAcknowledge")
                                      ELSE [threw |-> FALSE, paper |-> got.paper, value |-> FALSE]
                      IN  IF advanced.threw THEN Throw(l, TypeError)
                          ELSE LET atTarget == CallMethod(advanced.paper, "isAcknowledge")
                               IN  IF atTarget.threw THEN Throw(l, TypeError)
                                   ELSE IF atTarget.value
                                   THEN LET paper == setOwner(advanced.paper, newOwner)
                                            updated == updatePaper(l, paper)
                                        IN  IF updated.err # NoError THEN Throw(l, updated.err)
                                            ELSE Return(updated.ledger, toBuffer(paper))
                                   ELSE IF CallMethod(advanced.paper, "getCurrentState").threw
                                        THEN Throw(l, TypeError)
                                   ELSE Throw(l, InvalidStateTransition)

pay(l, issuer, paperNumber, currentOwner, newOwner, amount, dateTime) ==
    LET paperKey == makeKey(<<issuer, paperNumber>>)
        got == getPaper(l, paperKey)
    IN  IF got.err # NoError THEN Throw(l, got.err)
        ELSE IF getOwner(got.paper) # currentOwner THEN Throw(l, OwnerMismatch)
        ELSE LET atPredecessor == CallMethod(got.paper, "isAcknowledge")
             IN  IF atPredecessor.threw THEN Throw(l, TypeError)
                 ELSE LET advanced == IF atPredecessor.value
                                      THEN CallMethod(got.paper, "setPay")
                                      ELSE [threw |-> FALSE, paper |-> got.paper, value |-> FALSE]
                      IN  IF advanced.threw THEN Throw(l, TypeError)
                          ELSE LET atTarget == CallMethod(advanced.paper, "isPay")
                               IN  IF atTarget.threw THEN Throw(l, TypeError)
                                   ELSE IF atTarget.value
                                   THEN LET paper == setOwner(advanced.paper, newOwner)
                                            updated == updatePaper(l, paper)
                                        IN  IF updated.err # NoError THEN Throw(l, updated.err)
                                            ELSE Return(updated.ledger, toBuffer(paper))
                                   ELSE IF CallMethod(advanced.paper, "getCurrentState").threw
                                        THEN Throw(l, TypeError)
                                   ELSE Throw(l, InvalidStateTransition)

(***************************************************************************)
(* The state machine: one action per transaction function.  last records   *)
(* the invocation that produced the current ledger: its arguments, the     *)
(* paper stored at its key before it ran (or none), and its outcome.       *)
(***************************************************************************)
Amounts == {4900000}
DateTimes == {"2020-06-01"}

Before(l, key) == IF key \in DOMAIN l THEN <<l[key]>> ELSE << >>

Invocation(op, key, args, r) ==
    [op |-> op, key |-> key, args |-> args, before |-> Before(ledger, key),
     err |-> r.err, ret |-> r.ret]

\* the invocations that have read the ledger and not yet written to it, one
\* slot per client; none while invocations run one at a time
Clients == {"c1", "c2"}
NoPending == [c \in Clients |-> << >>]

Init ==
    /\ ledger = EmptyLedger
    /\ last = [op |-> "instantiate", key |-> "", args |-> << >>, before |-> << >>,
               err |-> NoError, ret |-> NoReturn]
    /\ pending = NoPending

Purchase ==
    \E issuer \in Issuers, paperNumber \in PaperNumbers, newOwner \in Owners,
       issueDateTime \in IssueDateTimes, maturityDateTime \in MaturityDateTimes,
       faceValue \in FaceValues :
        LET r == purchase(ledger, issuer, paperNumber, newOwner, issueDateTime,
                          maturityDateTime, faceValue)
        IN  /\ ledger' = r.ledger
            /\ last' = Invocation("purchase", makeKey(<<issuer, paperNumber>>),
                                  [issuer |-> issuer, paperNumber |-> paperNumber,
                                   newOwner |-> newOwner, issueDateTime |-> issueDateTime,
                                   maturityDateTime |-> maturityDateTime,
                                   faceValue |-> faceValue], r)
            /\ UNCHANGED pending

AdvanceArgs(issuer, paperNumber, currentOwner, newOwner, amount, dateTime) ==
    [issuer |-> issuer, paperNumber |-> paperNumber, currentOwner |-> currentOwner,
     newOwner |-> newOwner, amount |-> amount, dateTime |-> dateTime]

Invoice ==
    \E issuer \in Issuers, paperNumber \in PaperNumbers, currentOwner \in Owners,
       newOwner \in Owners, amount \in Amounts, dateTime \in DateTimes :
        LET r == invoice(ledger, issuer, paperNumber, currentOwner, newOwner, amount, dateTime)
        IN  /\ ledger' = r.ledger
            /\ last' = Invocation("invoice", makeKey(<<issuer, paperNumber>>),
                                  AdvanceArgs(issuer, paperNumber, currentOwner, newOwner,
                                              amount, dateTime), r)
            /\ UNCHANGED pending

Issue ==
    \E issuer \in Issuers, paperNumber \in PaperNumbers, currentOwner \in Owners,
       newOwner \in Owners, amount \in Amounts, dateTime \in DateTimes :
        LET r == issue(ledger, issuer, paperNumber, currentOwner, newOwner, amount, dateTime)
        IN  /\ ledger' = r.ledger
            /\ last' = Invocation("issue", makeKey(<<issuer, paperNumber>>),
                                  AdvanceArgs(issuer, paperNumber, currentOwner, newOwner,
                                              amount, dateTime), r)
            /\ UNCHANGED pending

Confirm ==
    \E issuer \in Issuers, paperNumber \in PaperNumbers, currentOwner \in Owners,
       newOwner \in Owners, amount \in Amounts, dateTime \in DateTimes :
        LET r == confirm(ledger, issuer, paperNumber, currentOwner, newOwner, amount, dateTime)
        IN  /\ ledger' = r.ledger
            /\ last' = Invocation("confirm", makeKey(<<issuer, paperNumber>>),
                                  AdvanceArgs(issuer, paperNumber, currentOwner, newOwner,
                                              amount, dateTime), r)
            /\ UNCHANGED pending

EarlyPay ==
    \E issuer \in Issuers, paperNumber \in PaperNumbers, currentOwner \in Owners,
       newOwner \in Owners, amount \in Amounts, dateTime \in DateTimes :
        LET r == earlyPay(ledger, issuer, paperNumber, currentOwner, newOwner, amount, dateTime)
        IN  /\ ledger' = r.ledger
            /\ last' = Invocation("earlyPay", makeKey(<<issuer, paperNumber>>),
                                  AdvanceArgs(issuer, paperNumber, currentOwner, newOwner,
                                              amount, dateTime), r)
            /\ UNCHANGED pending

Acknowledge ==
    \E issuer \in Issuers, paperNumber \in PaperNumbers, currentOwner \in Owners,
       newOwner \in Owners, amount \in Amounts, dateTime \in DateTimes :
        LET r == acknowledge(ledger, issuer, paperNumber, currentOwner, newOwner, amount, dateTime)
        IN  /\ ledger' = r.ledger
            /\ last' = Invocation("acknowledge", makeKey(<<issuer, paperNumber>>),
                                  AdvanceArgs(issuer, paperNumber, currentOwner, newOwner,
                                              amount, dateTime), r)
            /\ UNCHANGED pending

Pay ==
    \E issuer \in Issuers, paperNumber \in PaperNumbers, currentOwner \in Owners,
       newOwner \in Owners, amount \in Amounts, dateTime \in DateTimes :
        LET r == pay(ledger, issuer, paperNumber, currentOwner, newOwner, amount, dateTime)
        IN  /\ ledger' = r.ledger
            /\ last' = Invocation("pay", makeKey(<<issuer, paperNumber>>),
                                  AdvanceArgs(issuer, paperNumber, currentOwner, newOwner,
                                              amount, dateTime), r)
            /\ UNCHANGED pending

Next ==
    \/ Purchase
    \/ Invoice
    \/ Issue
    \/ Confirm
    \/ EarlyPay
    \/ Acknowledge
    \/ Pay

Spec == Init /\ [][Next]_vars

(***************************************************************************)
(* The contract as the platform calls it: a transaction names the function *)
(* to run and carries its arguments.                                       *)
(***************************************************************************)
Apply(op, l, a) ==
    CASE op = "purchase" ->
             purchase(l, a.issuer, a.paperNumber, a.newOwner, a.issueDateTime,
                      a.maturityDateTime, a.faceValue)
      [] op = "invoice" ->
             invoice(l, a.issuer, a.paperNumber, a.currentOwner, a.newOwner, a.amount, a.dateTime)
      [] op = "issue" ->
             issue(l, a.issuer, a.paperNumber, a.currentOwner, a.newOwner, a.amount, a.dateTime)
      [] op = "confirm" ->
             confirm(l, a.issuer, a.paperNumber, a.currentOwner, a.newOwner, a.amount, a.dateTime)
      [] op = "earlyPay" ->
             earlyPay(l, a.issuer, a.paperNumber, a.currentOwner, a.newOwner, a.amount, a.dateTime)
      [] op = "acknowledge" ->
             acknowledge(l, a.issuer, a.paperNumber, a.currentOwner, a.newOwner, a.amount, a.dateTime)
      [] op = "pay" ->
             pay(l, a.issuer, a.paperNumber, a.currentOwner, a.newOwner, a.amount, a.dateTime)

PurchaseArgs(issuers, paperNumbers, owners) ==
    [issuer : issuers, paperNumber : paperNumbers, newOwner : owners,
     issueDateTime : IssueDateTimes, maturityDateTime : MaturityDateTimes,
     faceValue : FaceValues]

AdvanceArgsOf(issuers, paperNumbers, owners) ==
    [issuer : issuers, paperNumber : paperNumbers, currentOwner : owners,
     newOwner : owners, amount : Amounts, dateTime : DateTimes]

Submit(op, a) ==
    LET r == Apply(op, ledger, a)
    IN  /\ ledger' = r.ledger
        /\ last' = Invocation(op, makeKey(<<a.issuer, a.paperNumber>>), a, r)
        /\ UNCHANGED pending

(***************************************************************************)
(* The contract called with any owner string, the empty one included, on   *)
(* one paper.                                                              *)
(***************************************************************************)
AnyOwners == Owners \cup {""}
OnePaper == {1}

PurchaseAnyOwner == \E a \in PurchaseArgs(Issuers, OnePaper, AnyOwners) : Submit("purchase", a)
InvoiceAnyOwner == \E a \in AdvanceArgsOf(Issuers, OnePaper, AnyOwners) : Submit("invoice", a)
IssueAnyOwner == \E a \in AdvanceArgsOf(Issuers, OnePaper, AnyOwners) : Submit("issue", a)
ConfirmAnyOwner == \E a \in AdvanceArgsOf(Issuers, OnePaper, AnyOwners) : Submit("confirm", a)
EarlyPayAnyOwner == \E a \in AdvanceArgsOf(Issuers, OnePaper, AnyOwners) : Submit("earlyPay", a)
AcknowledgeAnyOwner == \E a \in AdvanceArgsOf(Issuers, OnePaper, AnyOwners) : Submit("acknowledge", a)
PayAnyOwner == \E a \in AdvanceArgsOf(Issuers, OnePaper, AnyOwners) : Submit("pay", a)

NextAnyOwner ==
    \/ PurchaseAnyOwner
    \/ InvoiceAnyOwner
    \/ IssueAnyOwner
    \/ ConfirmAnyOwner
    \/ EarlyPayAnyOwner
    \/ AcknowledgeAnyOwner
    \/ PayAnyOwner

SpecAnyOwner == Init /\ [][NextAnyOwner]_vars

(***************************************************************************)
(* The contract together with the application reading back a stored paper  *)
(* from its serialized form.                                               *)
(***************************************************************************)
FromBuffer ==
    \E k \in DOMAIN ledger :
        LET buffer == toBuffer(ledger[k])
            r == fromBuffer(buffer)
        IN  /\ last' = [op |-> "fromBuffer", key |-> k, args |-> [buffer |-> buffer],
                        before |-> <<ledger[k]>>, err |-> r.err, ret |-> r.paper]
            /\ UNCHANGED <<ledger, pending>>

NextCodec ==
    \/ Next
    \/ FromBuffer

SpecCodec == Init /\ [][NextCodec]_vars

(***************************************************************************)
(* The contract called for issuers and paper numbers whose texts overlap.  *)
(***************************************************************************)
KeyIssuers == {"Corp", "Corp1"}
KeyNumbers == {1, 11}
KeyOwners == {"MagnetoCorp"}

PurchaseKeyed == \E a \in PurchaseArgs(KeyIssuers, KeyNumbers, KeyOwners) : Submit("purchase", a)
InvoiceKeyed == \E a \in AdvanceArgsOf(KeyIssuers, KeyNumbers, KeyOwners) : Submit("invoice", a)
IssueKeyed == \E a \in AdvanceArgsOf(KeyIssuers, KeyNumbers, KeyOwners) : Submit("issue", a)

NextKeyed ==
    \/ PurchaseKeyed
    \/ InvoiceKeyed
    \/ IssueKeyed

SpecKeyed == Init /\ [][NextKeyed]_vars

(***************************************************************************)
(* Two clients invoking the contract on one paper at the same time.  An    *)
(* invocation reads the ledger when it loads the paper (or, for purchase,  *)
(* when the collection looks for an existing record) and writes when it    *)
(* persists; the ledger platform validates the read at commit time and     *)
(* aborts the invocation when the key was written in between.              *)
(***************************************************************************)
Conflict == "Conflict"
ConcurrentOps == {"purchase", "invoice", "issue"}

ArgsOf(op) ==
    IF op = "purchase" THEN PurchaseArgs(Issuers, OnePaper, Owners)
    ELSE AdvanceArgsOf(Issuers, OnePaper, Owners)

\* a platform that commits without validating what was read
Validate_none(tx) == TRUE

\* commit-time validation of what the invocation read
Validate(tx) == ~tx.stale

\* a committed write to a key outdates every other read of that key
Outdate(p, c, key) ==
    [d \in Clients |->
        IF d = c THEN << >>
        ELSE IF p[d] # << >> /\ p[d][1].key = key
        THEN <<[p[d][1] EXCEPT !.stale = TRUE]>>
        ELSE p[d]]

Load(c) ==
    /\ pending[c] = << >>
    /\ \E op \in ConcurrentOps :
        \E a \in ArgsOf(op) :
            pending' = [pending EXCEPT ![c] =
                           <<[op |-> op, args |-> a,
                              key |-> makeKey(<<a.issuer, a.paperNumber>>),
                              snapshot |-> ledger, stale |-> FALSE]>>]
    /\ UNCHANGED <<ledger, last>>

Persist(c) ==
    /\ pending[c] # << >>
    /\ LET tx == pending[c][1]
           r == Apply(tx.op, tx.snapshot, tx.args)
       IN  IF r.err # NoError
           THEN /\ last' = Invocation(tx.op, tx.key, tx.args, r)
                /\ pending' = [pending EXCEPT ![c] = << >>]
                /\ UNCHANGED ledger
           ELSE IF ~Validate(tx)
           THEN /\ last' = Invocation(tx.op, tx.key, tx.args, Throw(ledger, Conflict))
                /\ pending' = [pending EXCEPT ![c] = << >>]
                /\ UNCHANGED ledger
           ELSE /\ ledger' = (tx.key :> r.ledger[tx.key]) @@ ledger
                /\ last' = Invocation(tx.op, tx.key, tx.args, r)
                /\ pending' = Outdate(pending, c, tx.key)

NextConcurrent ==
    \/ \E c \in Clients : Load(c)
    \/ \E c \in Clients : Persist(c)

SpecConcurrent == Init /\ [][NextConcurrent]_vars

(***************************************************************************)
(* The lifecycle as the specification orders it, and the predecessor and   *)
(* target position of every advancing operation.                           *)
(***************************************************************************)
Lifecycle == <<"PURCHASE", "INVOICE", "ISSUE", "CONFIRM", "EARLYPAY", "ACKNOWLEDGE", "PAY">>

Position(name) == CHOOSE i \in 1..Len(Lifecycle) : Lifecycle[i] = name

AdvancingOps == {"invoice", "issue", "confirm", "earlyPay", "acknowledge", "pay"}

PredecessorOf ==
    [invoice |-> Position("PURCHASE"), issue |-> Position("INVOICE"),
     confirm |-> Position("ISSUE"), earlyPay |-> Position("CONFIRM"),
     acknowledge |-> Position("EARLYPAY"), pay |-> Position("ACKNOWLEDGE")]

TargetOf ==
    [invoice |-> Position("INVOICE"), issue |-> Position("ISSUE"),
     confirm |-> Position("CONFIRM"), earlyPay |-> Position("EARLYPAY"),
     acknowledge |-> Position("ACKNOWLEDGE"), pay |-> Position("PAY")]

Existed == last.before # << >>
Prior == last.before[1]
Stored == ledger[last.key]
OwnerMatches == last.args.currentOwner = GetField(Prior, "owner")

C2_EarlyStagesAdvance ==
    (/\ last.op \in {"invoice", "issue", "confirm"}
     /\ Existed
     /\ GetField(Prior, "currentState") = PredecessorOf[last.op]
     /\ OwnerMatches) =>
        /\ last.err = NoError
        /\ last.key \in DOMAIN ledger
        /\ GetField(Stored, "currentState") = TargetOf[last.op]
        /\ GetField(Stored, "owner") = last.args.newOwner

C2_Witness ==
    /\ last.op = "confirm"
    /\ Existed
    /\ GetField(Prior, "currentState") = PredecessorOf["confirm"]
    /\ OwnerMatches
    /\ last.args.newOwner # last.args.currentOwner
    /\ last.err = NoError

\* C3: earlyPay, acknowledge and pay, invoked by the stored owner on an
\* entity at the operation's predecessor state, succeed, persist the
\* operation's target state and persist newOwner as the owner.
C3_LateStagesAdvance ==
    (/\ last.op \in {"earlyPay", "acknowledge", "pay"}
     /\ Existed
     /\ GetField(Prior, "currentState") = PredecessorOf[last.op]
     /\ OwnerMatches) =>
        /\ last.err = NoError
        /\ last.key \in DOMAIN ledger
        /\ GetField(Stored, "currentState") = TargetOf[last.op]
        /\ GetField(Stored, "owner") = last.args.newOwner

\* C4: no invocation, succeeding or failing, lowers the persisted
\* currentState of the entity at any key.
C4_StateNeverDecreases ==
    [][\A k \in DOMAIN ledger :
          k \in DOMAIN ledger' =>
              GetField(ledger'[k], "currentState") >= GetField(ledger[k], "currentState")]_vars

C4_Witness ==
    /\ last.op = "confirm"
    /\ last.err = NoError
    /\ Existed
    /\ GetField(Prior, "currentState") < GetField(Stored, "currentState")
    /\ \E k \in DOMAIN ledger : GetField(ledger[k], "currentState") < Position("CONFIRM")

\* C5: an advancing operation invoked by the stored owner on an entity that
\* is already at the operation's target state never errors and changes
\* nothing of the entity but its owner, which becomes newOwner.
C5_PureTransfer ==
    (/\ last.op \in AdvancingOps
     /\ Existed
     /\ GetField(Prior, "currentState") = TargetOf[last.op]
     /\ OwnerMatches) =>
        /\ last.err = NoError
        /\ last.key \in DOMAIN ledger
        /\ Stored = SetField(Prior, "owner", last.args.newOwner)

C5_Witness ==
    /\ last.op = "confirm"
    /\ Existed
    /\ GetField(Prior, "currentState") = TargetOf["confirm"]
    /\ OwnerMatches
    /\ last.args.newOwner # last.args.currentOwner
    /\ last.err = NoError

\* C6: an advancing operation invoked by the stored owner on an entity that
\* is strictly before the operation's predecessor state fails with
\* InvalidStateTransition and leaves the persisted entity unchanged.
C6_SkipRejected ==
    (/\ last.op \in AdvancingOps
     /\ Existed
     /\ GetField(Prior, "currentState") < PredecessorOf[last.op]
     /\ OwnerMatches) =>
        /\ last.err = InvalidStateTransition
        /\ last.key \in DOMAIN ledger
        /\ Stored = Prior

\* C7: an advancing operation invoked with a currentOwner that is not the
\* stored owner fails with OwnerMismatch, whatever state the entity is in,
\* and leaves the persisted entity unchanged.
C7_OwnerGate ==
    (/\ last.op \in AdvancingOps
     /\ Existed
     /\ ~OwnerMatches) =>
        /\ last.err = OwnerMismatch
        /\ last.key \in DOMAIN ledger
        /\ Stored = Prior

C7_Witness ==
    /\ last.op = "invoice"
    /\ Existed
    /\ ~OwnerMatches
    /\ GetField(Prior, "currentState") > TargetOf["invoice"]
    /\ last.err = OwnerMismatch

\* C8: an invocation that ends in an error leaves the whole ledger as it
\* was before the invocation.
C8_ErrorAtomicity ==
    [][last'.err # NoError => ledger' = ledger]_vars

C8_Witness ==
    /\ last.op = "confirm"
    /\ Existed
    /\ OwnerMatches
    /\ last.err = InvalidStateTransition
    /\ Stored = Prior

\* C9: a purchase at a key that already holds an entity fails with
\* AlreadyExists and leaves that entity as it was.
C9_PurchaseOfExistingRejected ==
    (last.op = "purchase" /\ Existed) =>
        /\ last.err = AlreadyExists
        /\ last.key \in DOMAIN ledger
        /\ Stored = Prior

C9_Witness ==
    /\ last.op = "purchase"
    /\ Existed
    /\ GetField(Prior, "currentState") > Position("PURCHASE")
    /\ GetField(Prior, "owner") # last.args.newOwner
    /\ last.err = AlreadyExists

\* C10: an advancing operation invoked for a key that holds no entity fails
\* with NotFound, and the key holds no entity afterwards.
C10_AdvanceOfAbsentRejected ==
    (last.op \in AdvancingOps /\ ~Existed) =>
        /\ last.err = NotFound
        /\ last.key \notin DOMAIN ledger

C10_Witness ==
    /\ last.op \in AdvancingOps
    /\ ~Existed
    /\ last.err = NotFound
    /\ ledger # EmptyLedger

\* C11: once an entity exists, no invocation changes, adds or removes any
\* of its fields other than owner and currentState: the identifying and
\* business fields stay as created and no amount or dateTime argument is
\* stored.
C11_OnlyOwnerAndStateChange ==
    [][\A k \in DOMAIN ledger :
          k \in DOMAIN ledger' =>
              /\ DOMAIN ledger'[k] = DOMAIN ledger[k]
              /\ \A f \in DOMAIN ledger[k] \ {"owner", "currentState"} :
                     ledger'[k][f] = ledger[k][f]]_vars

C11_Witness ==
    /\ last.op = "issue"
    /\ last.err = NoError
    /\ Existed
    /\ GetField(Prior, "currentState") # GetField(Stored, "currentState")
    /\ GetField(Prior, "owner") # GetField(Stored, "owner")
    /\ last.args.dateTime # GetField(Stored, "issueDateTime")
    /\ last.args.amount # GetField(Stored, "faceValue")

\* C12: every entity in the ledger has a non-empty owner, whatever owner
\* strings the invocations were given.
C12_OwnerNeverEmpty ==
    \A k \in DOMAIN ledger : GetField(ledger[k], "owner") \notin {"", Undefined}

\* the value a serialized entity carries for a field
HasBufferField(buffer, f) == \E i \in 1..Len(buffer) : buffer[i][1] = f
BufferField(buffer, f) == buffer[CHOOSE i \in 1..Len(buffer) : buffer[i][1] = f][2]

\* C13: a successful invocation returns the serialization of the entity it
\* persisted (every stored field, owner and currentState included, with the
\* stored value) and a failed invocation returns no serialized entity.
C13_ReturnsPersistedEntity ==
    (last.op # "instantiate") =>
        IF last.err = NoError
        THEN /\ last.key \in DOMAIN ledger
             /\ Len(last.ret) = Cardinality(DOMAIN Stored)
             /\ \A f \in DOMAIN Stored :
                    HasBufferField(last.ret, f) /\ BufferField(last.ret, f) = Stored[f]
        ELSE last.ret = NoReturn

C13_Witness ==
    /\ last.op = "invoice"
    /\ last.err = NoError
    /\ Existed
    /\ GetField(Prior, "owner") # GetField(Stored, "owner")
    /\ GetField(Prior, "currentState") # GetField(Stored, "currentState")
    /\ HasBufferField(last.ret, "owner")

\* C14: decoding the serialization of an entity succeeds and yields an
\* entity equal to the original in every field and in its type tag.
C14_RoundTrip ==
    (last.op = "fromBuffer") =>
        /\ last.err = NoError
        /\ last.ret = <<Prior>>
        /\ GetField(last.ret[1], "class") = getClass

\* the keys of the stored entities that carry the pair an invocation names
StoredUnder(l, a) ==
    {k \in DOMAIN l : /\ GetField(l[k], "issuer") = a.issuer
                      /\ GetField(l[k], "paperNumber") = a.paperNumber}

\* C15: the key is a function of the pair (issuer, paperNumber) that no two
\* pairs share: a purchase is rejected as existing exactly when an entity of
\* its pair is stored, an advancing operation finds an entity exactly when
\* an entity of its pair is stored, every entity is stored under the key of
\* its own pair, and distinct pairs have distinct keys.
C15_KeyOfPair ==
    [][/\ last'.op = "purchase" =>
              (last'.err = AlreadyExists <=> StoredUnder(ledger, last'.args) # {})
       /\ last'.op \in AdvancingOps =>
              (last'.err = NotFound <=> StoredUnder(ledger, last'.args) = {})
       /\ \A k \in DOMAIN ledger' :
              k = makeKey(<<GetField(ledger'[k], "issuer"), GetField(ledger'[k], "paperNumber")>>)
       /\ \A p, q \in KeyIssuers \X KeyNumbers : makeKey(p) = makeKey(q) => p = q]_vars

C15_Witness ==
    /\ last.op = "issue"
    /\ last.err = NoError
    /\ last.args.issuer = "Corp"
    /\ last.args.paperNumber = 11
    /\ \E k \in DOMAIN ledger :
           /\ GetField(ledger[k], "issuer") = "Corp1"
           /\ GetField(ledger[k], "paperNumber") = 1
           /\ GetField(ledger[k], "currentState") = Position("PURCHASE")
    /\ Cardinality(DOMAIN ledger) = 2

\* C16: an invocation leaves the persisted currentState of an entity where
\* it was or moves it by exactly one position of the lifecycle, and a new
\* entity starts at PURCHASE.
C16_NoStepSkipped ==
    [][\A k \in DOMAIN ledger' :
          IF k \in DOMAIN ledger
          THEN GetField(ledger'[k], "currentState") - GetField(ledger[k], "currentState")
                   \in {0, 1}
          ELSE GetField(ledger'[k], "currentState") = Position("PURCHASE")]_vars

C16_Witness ==
    /\ last.op = "issue"
    /\ last.err = NoError
    /\ Existed
    /\ GetField(Prior, "currentState") = Position("INVOICE")
    /\ GetField(Stored, "currentState") = Position("ISSUE")
    /\ \E k \in DOMAIN ledger : GetField(ledger[k], "currentState") = Position("CONFIRM")

\* C17: an advancing operation invoked by the stored owner on an entity that
\* is already past the operation's target state fails with
\* InvalidStateTransition and leaves the persisted entity unchanged.
C17_PastTargetRejected ==
    (/\ last.op \in AdvancingOps
     /\ Existed
     /\ GetField(Prior, "currentState") > TargetOf[last.op]
     /\ OwnerMatches) =>
        /\ last.err = InvalidStateTransition
        /\ last.key \in DOMAIN ledger
        /\ Stored = Prior

C17_Witness ==
    /\ last.op = "invoice"
    /\ Existed
    /\ GetField(Prior, "currentState") = Position("CONFIRM")
    /\ OwnerMatches
    /\ last.args.newOwner # last.args.currentOwner
    /\ last.err = InvalidStateTransition

\* C18: an invocation for one key never creates, changes or removes the
\* entity stored at any other key.
C18_KeyIndependence ==
    [][\A k \in (DOMAIN ledger \cup DOMAIN ledger') \ {last'.key} :
          /\ k \in DOMAIN ledger
          /\ k \in DOMAIN ledger'
          /\ ledger'[k] = ledger[k]]_vars

C18_Witness ==
    /\ last.op \in AdvancingOps
    /\ last.err = NoError
    /\ Existed
    /\ Stored # Prior
    /\ \E k \in DOMAIN ledger \ {last.key} :
           GetField(ledger[k], "currentState") # GetField(Stored, "currentState")

\* C19: when invocations on one key interleave their load and persist
\* steps, an invocation that completes without error has exactly the effect
\* of running it, whole, on the ledger as committed so far, and an
\* invocation that ends in an error or is aborted for a conflict has no
\* effect: the ledger is always the result of running the committed
\* invocations one after another in the order they committed.
C19_CommittedInvocationsAreSerial ==
    [][\A c \in Clients :
          (pending[c] # << >> /\ pending'[c] = << >>) =>
              LET tx == pending[c][1]
                  r == Apply(tx.op, ledger, tx.args)
              IN  IF last'.err = NoError
                  THEN r.err = NoError /\ ledger' = r.ledger
                  ELSE ledger' = ledger]_vars

C19_Witness ==
    /\ last.op \in AdvancingOps
    /\ last.err = Conflict
    /\ Existed
    /\ GetField(Stored, "owner") # last.args.currentOwner
    /\ last.args.newOwner # GetField(Stored, "owner")

====
